---- MODULE Spec2Model ----
(***************************************************************************)
(* Model of keys/src/signature.rs: the EOS text/binary codec for           *)
(* recoverable secp256k1 signatures.                                       *)
(*                                                                         *)
(* A Signature is the pair RecoverableSignature::serialize_compact hands   *)
(* back: a recovery id and 64 compact bytes.  Strings are sequences of     *)
(* one-character strings, byte arrays are sequences of 0..255 (index 1 is  *)
(* Rust's index 0).  The functions of the file are operators; the state    *)
(* machine is a caller that holds a Signature, passes an argument to the   *)
(* decoders and keeps the last return value.                               *)
(***************************************************************************)
EXTENDS Integers, Sequences, FiniteSets, TLC

(***************************************************************************)
(* Sizes and offsets of the source.                                        *)
(***************************************************************************)
\* signature.rs:58  "signature length: 64"
SIG_LEN == 64
\* signature.rs:59  "checksum length: 4"
CHECKSUM_LEN == 4
\* signature.rs:24  [u8; 65]
COMPACT_LEN == 65
\* signature.rs:56  &s[7..]
PREFIX_LEN == 7
\* signature.rs:52  "SIG_K1_"
PREFIX == << "S", "I", "G", "_", "K", "1", "_" >>
\* signature.rs:70  b"K1"
K1_TAG == << 75, 49 >>

(***************************************************************************)
(* Bounds of the explored inputs.                                          *)
(***************************************************************************)
\* compact signatures filled with one byte value 0..MaxFill
MaxFill == 1
\* crafted payloads are up to MaxExtra bytes longer or shorter than 69
MaxExtra == 1

(***************************************************************************)
(* u8 arithmetic of Rust: the subtraction wraps modulo 256 in a build      *)
(* without overflow checks and panics in a build with them.                *)
(***************************************************************************)
U8Underflows(a, b) == a < b

U8WrappingSub(a, b) == (a - b + 256) % 256

(***************************************************************************)
(* byteorder::LittleEndian::read_u32.  The value is kept as two 16-bit     *)
(* halves (TLC's integers are 32-bit signed); two reads are equal       *)
(* iff the u32 values are.                                                 *)
(***************************************************************************)
read_u32(b) == [lo |-> b[1] + 256 * b[2], hi |-> b[3] + 256 * b[4]]

NoU32 == [lo |-> -1, hi |-> -1]

(***************************************************************************)
(* crate::hash::ripemd160, an opaque 20-byte digest: a position-weighted   *)
(* sum of the input bytes per output byte.  Only determinism and the       *)
(* dependence on every input byte matter to the codec.                     *)
(***************************************************************************)
DIGEST_LEN == 20

\* the sum of (i + k) * data[i] for i in lo..hi, modulo 2^16
RECURSIVE WeightedSum(_, _, _, _)
WeightedSum(data, lo, hi, k) ==
  IF lo > hi THEN 0
  ELSE IF lo = hi THEN ((lo + k) * data[lo]) % 65536
  ELSE (WeightedSum(data, lo, (lo + hi) \div 2, k)
          + WeightedSum(data, (lo + hi) \div 2 + 1, hi, k)) % 65536

ripemd160(data) ==
  [k \in 1..DIGEST_LEN |-> (WeightedSum(data, 1, Len(data), k) + 7 * k + Len(data)) % 256]

(***************************************************************************)
(* crate::base58: the Bitcoin alphabet, no embedded checksum.  Leading     *)
(* zero bytes map to leading "1" characters; the rest is the big-endian    *)
(* number rewritten in the other radix.  The long multiplication works on  *)
(* pairs of digits so that every intermediate value fits 31 bits.          *)
(***************************************************************************)
BASE58_CHARS ==
  << "1", "2", "3", "4", "5", "6", "7", "8", "9",
     "A", "B", "C", "D", "E", "F", "G", "H", "J", "K", "L", "M", "N", "P",
     "Q", "R", "S", "T", "U", "V", "W", "X", "Y", "Z",
     "a", "b", "c", "d", "e", "f", "g", "h", "i", "j", "k", "m", "n", "o",
     "p", "q", "r", "s", "t", "u", "v", "w", "x", "y", "z" >>

IsBase58Char(c) == \E i \in 1..58 : BASE58_CHARS[i] = c

Base58Digit(c) == (CHOOSE i \in 1..58 : BASE58_CHARS[i] = c) - 1

\* big-endian digits of radix r, taken two at a time: digits of radix r*r
DigitPairs(d, r) ==
  LET n == Len(d)
  IN [k \in 1..((n + 1) \div 2) |->
        IF n % 2 = 1
        THEN (IF k = 1 THEN d[1] ELSE d[2 * k - 2] * r + d[2 * k - 1])
        ELSE d[2 * k - 1] * r + d[2 * k]]

\* little-endian limbs of radix r*r as big-endian digits of radix r,
\* without a leading zero digit
StripLeadingZero(d) == IF d # <<>> /\ d[1] = 0 THEN SubSeq(d, 2, Len(d)) ELSE d

SplitPairs(le, r) ==
  StripLeadingZero([i \in 1..(2 * Len(le)) |->
                      IF i % 2 = 1 THEN le[Len(le) - (i \div 2)] \div r
                      ELSE le[Len(le) + 1 - (i \div 2)] % r])

\* One pass of long multiplication over the little-endian limbs lo..hi:
\* each limb times mul plus the carry coming in.  The result is the new limbs
\* (d) and the carry going out (c).  Runs of up to 8 limbs are done limb by
\* limb; a longer range is halved, the left half first, which keeps the depth
\* of the evaluation small.
RECURSIVE MulAddRun(_, _, _, _, _, _)
RECURSIVE MulAddRange(_, _, _, _, _, _)
RECURSIVE MulAddRight(_, _, _, _, _, _)
MulAddPrepend(x, r) == [d |-> <<x>> \o r.d, c |-> r.c]

MulAddJoin(l, r) == [d |-> l.d \o r.d, c |-> r.c]

MulAddRun(le, lo, hi, mul, carry, radix) ==
  IF lo > hi THEN [d |-> <<>>, c |-> carry]
  ELSE MulAddPrepend((le[lo] * mul + carry) % radix,
                     MulAddRun(le, lo + 1, hi, mul, (le[lo] * mul + carry) \div radix, radix))

MulAddRight(l, le, lo, hi, mul, radix) ==
  MulAddJoin(l, MulAddRange(le, lo, hi, mul, l.c, radix))

MulAddRange(le, lo, hi, mul, carry, radix) ==
  IF hi - lo < 8 THEN MulAddRun(le, lo, hi, mul, carry, radix)
  ELSE MulAddRight(MulAddRange(le, lo, (lo + hi) \div 2, mul, carry, radix),
                   le, (lo + hi) \div 2 + 1, hi, mul, radix)

\* the limbs of the carry left after the last limb (carry < radix * radix)
CarryLimbs(c, radix) ==
  IF c = 0 THEN <<>> ELSE IF c < radix THEN <<c>> ELSE <<c % radix, c \div radix>>

MulAddEnd(r, radix) == r.d \o CarryLimbs(r.c, radix)

\* le * mul + carry on little-endian limbs of the given radix
MulAdd(le, mul, carry, radix) ==
  MulAddEnd(MulAddRange(le, 1, Len(le), mul, carry, radix), radix)

\* acc, then for each big-endian digit lo..hi of radix from: acc * from + digit,
\* on little-endian limbs of radix to.  Reading Len(acc) first makes TLC
\* evaluate acc (the digits before lo) before the range is split.
RECURSIVE ChangeRadix(_, _, _, _, _, _)
ChangeRadix(digits, lo, hi, acc, from, to) ==
  IF Len(acc) < 0 \/ lo > hi THEN acc
  ELSE IF lo = hi THEN MulAdd(acc, from, digits[lo], to)
  ELSE ChangeRadix(digits, (lo + hi) \div 2 + 1, hi,
                   ChangeRadix(digits, lo, (lo + hi) \div 2, acc, from, to), from, to)

\* the number of leading elements of s equal to z
LeadingCount(s, z) ==
  CHOOSE k \in 0..Len(s) :
    /\ \A i \in 1..k : s[i] = z
    /\ k = Len(s) \/ s[k + 1] # z

\* the characters of leading zeroes and the base-58 digits d58
Base58String(zeroes, d58) ==
  [i \in 1..zeroes |-> BASE58_CHARS[1]] \o [i \in 1..Len(d58) |-> BASE58_CHARS[d58[i] + 1]]

\* base58::encode_slice
encode_slice(data) ==
  Base58String(LeadingCount(data, 0),
               SplitPairs(ChangeRadix(DigitPairs(data, 256), 1, (Len(data) + 1) \div 2,
                                      <<>>, 256 * 256, 58 * 58), 58))

Base58Bytes(zeroes, b) == [ok |-> TRUE, bytes |-> [i \in 1..zeroes |-> 0] \o b]

\* base58::from
base58_from(s) ==
  IF \E i \in 1..Len(s) : ~IsBase58Char(s[i])
  THEN [ok |-> FALSE, bytes |-> <<>>]
  ELSE Base58Bytes(LeadingCount(s, BASE58_CHARS[1]),
                   SplitPairs(ChangeRadix(DigitPairs([i \in 1..Len(s) |-> Base58Digit(s[i])], 58),
                                          1, (Len(s) + 1) \div 2, <<>>, 58 * 58, 256 * 256), 256))

(***************************************************************************)
(* secp256k1: RecoveryId::from_i32 and the structural check of             *)
(* RecoverableSignature::from_compact (r and s below the group order).     *)
(***************************************************************************)
CURVE_ORDER ==
  << 255, 255, 255, 255, 255, 255, 255, 255, 255, 255, 255, 255, 255, 255, 255, 254,
     186, 174, 220, 230, 175, 72, 160, 59, 191, 210, 94, 140, 208, 54, 65, 65 >>

BytesLess(a, b) ==
  \E i \in 1..Len(b) : a[i] < b[i] /\ \A j \in 1..(i - 1) : a[j] = b[j]

RecoveryIdFromI32Ok(id) == id \in 0..3

RecoverableFromCompactOk(data) ==
  /\ Len(data) = SIG_LEN
  /\ BytesLess(SubSeq(data, 1, 32), CURVE_ORDER)
  /\ BytesLess(SubSeq(data, 33, 64), CURVE_ORDER)

(***************************************************************************)
(* Values: Signature and crate::Result<Signature>.                         *)
(***************************************************************************)
NoSig == [recid |-> -1, data |-> <<>>]

Signature(recid, data) == [recid |-> recid, data |-> data]

Ok(s) == [tag |-> "Ok", sig |-> s, err |-> "", expected |-> NoU32, actual |-> NoU32]

Err(e) == [tag |-> "Err", sig |-> NoSig, err |-> e, expected |-> NoU32, actual |-> NoU32]

BadChecksum(expected, actual) ==
  [tag |-> "Err", sig |-> NoSig, err |-> "BadChecksum", expected |-> expected, actual |-> actual]

Panic == [tag |-> "Panic", sig |-> NoSig, err |-> "", expected |-> NoU32, actual |-> NoU32]

(***************************************************************************)
(* impl Signature                                                          *)
(***************************************************************************)
\* mutant: the legacy byte without the + 4
serialize_compact_no4(sig) == <<sig.recid + 27>> \o sig.data

serialize_compact(sig) == <<sig.recid + 27 + 4>> \o sig.data

\* mutant: the threshold test is > 31 instead of >= 31
from_compact_gt(data) ==
  LET id == IF data[1] > 31 THEN data[1] - 4 - 27 ELSE data[1]
  IN IF ~RecoveryIdFromI32Ok(id) THEN Err("InvalidRecoveryId")
     ELSE IF ~RecoverableFromCompactOk(SubSeq(data, 2, COMPACT_LEN)) THEN Err("InvalidSignature")
     ELSE Ok(Signature(id, SubSeq(data, 2, COMPACT_LEN)))

from_compact(data) ==
  LET id == IF data[1] >= 31 THEN data[1] - 4 - 27 ELSE data[1]
  IN IF ~RecoveryIdFromI32Ok(id) THEN Err("InvalidRecoveryId")
     ELSE IF ~RecoverableFromCompactOk(SubSeq(data, 2, COMPACT_LEN)) THEN Err("InvalidSignature")
     ELSE Ok(Signature(id, SubSeq(data, 2, COMPACT_LEN)))

(***************************************************************************)
(* impl FromStr for Signature, line by line.  overflow_checks is the       *)
(* build's setting for integer overflow: the u8 expression                 *)
(* s_hex[0] - 4 - 27 panics with it and wraps modulo 256 without it.       *)
(***************************************************************************)
\* mutant: no prefix test
starts_with_any(s, p) == TRUE

starts_with(s, p) == Len(s) >= Len(p) /\ SubSeq(s, 1, Len(p)) = p

\* mutant: only payloads shorter than 69 bytes are refused
BadLengthShort(s_hex) == Len(s_hex) < 1 + 64 + 4

\* line 60: s_hex.len() != 1 + 64 + 4
BadLength(s_hex) == Len(s_hex) # 1 + 64 + 4

\* line 64: s_hex[0] - 4 - 27 overflows u8
RecidUnderflows(b0) == U8Underflows(b0, 4) \/ U8Underflows(U8WrappingSub(b0, 4), 27)

\* mutant: byte 0 read by from_compact's rule (raw ids 0..3 accepted)
RecidOfLegacyByteDual(b0) == IF b0 >= 31 THEN b0 - 4 - 27 ELSE b0

\* line 64: (s_hex[0] - 4 - 27) as i32, in a build that wraps
RecidOfLegacyByte(b0) == U8WrappingSub(U8WrappingSub(b0, 4), 27)

\* lines 68-71: the checksum of the 65 bytes followed by "K1"
ExpectedChecksum(bytes65) == read_u32(SubSeq(ripemd160(bytes65 \o K1_TAG), 1, CHECKSUM_LEN))

\* mutant: the checksum is never compared
ChecksumMismatchNever(expected, actual) == FALSE

\* line 73: expected != actual
ChecksumMismatch(expected, actual) == expected # actual

\* lines 56-79: from the result of base58::from on
from_str_decoded(decoded, overflow_checks) ==
  IF ~decoded.ok THEN Err("BadBase58")
  ELSE IF BadLength(decoded.bytes) THEN Err("InvalidSignature")
  ELSE IF overflow_checks /\ RecidUnderflows(decoded.bytes[1]) THEN Panic
  ELSE
    LET s_hex == decoded.bytes
        id == RecidOfLegacyByte(s_hex[1])
        data == SubSeq(s_hex, 2, 65)
        expected == ExpectedChecksum(SubSeq(s_hex, 1, 65))
        actual == read_u32(SubSeq(s_hex, 66, 69))
    IN
    IF ~RecoveryIdFromI32Ok(id) THEN Err("InvalidRecoveryId")
    ELSE IF ChecksumMismatch(expected, actual) THEN BadChecksum(expected, actual)
    ELSE IF ~RecoverableFromCompactOk(data) THEN Err("InvalidSignature")
    ELSE Ok(Signature(id, data))

from_str(s, overflow_checks) ==
  IF ~starts_with(s, PREFIX) THEN Err("InvalidSignature")
  ELSE from_str_decoded(base58_from(SubSeq(s, PREFIX_LEN + 1, Len(s))), overflow_checks)

(***************************************************************************)
(* impl fmt::Display for Signature                                         *)
(***************************************************************************)
\* mutant: the checksum is taken over the 65 bytes without the "K1" tag
fmt_untagged(sig) ==
  LET checksum_data == <<sig.recid + 27 + 4>> \o sig.data
      checksum == SubSeq(ripemd160(checksum_data), 1, 4)
  IN PREFIX \o encode_slice(checksum_data \o checksum)

\* mutant: the legacy byte without the + 4
fmt_no4(sig) ==
  LET checksum_data == <<sig.recid + 27>> \o sig.data \o K1_TAG
      checksum == SubSeq(ripemd160(checksum_data), 1, 4)
      sig_slice == SubSeq(checksum_data, 1, 65) \o checksum
  IN PREFIX \o encode_slice(sig_slice)

fmt(sig) ==
  LET checksum_data == <<sig.recid + 27 + 4>> \o sig.data \o K1_TAG
      checksum == SubSeq(ripemd160(checksum_data), 1, 4)
      sig_slice == SubSeq(checksum_data, 1, 65) \o checksum
  IN PREFIX \o encode_slice(sig_slice)

\* test::sig_from_str_should_error, the string without the prefix
NO_PREFIX_STR ==
  << "K", "o", "m", "V", "6", "F", "E", "H", "K", "d", "t", "Z", "x", "G", "D", "w", "h", "w", "S", "u", "b", "E", "A", "c",
     "J", "7", "V", "h", "t", "U", "Q", "p", "E", "t", "5", "P", "6", "i", "D", "z", "3", "3", "i", "c", "9", "3", "6", "a",
     "S", "X", "x", "8", "7", "B", "2", "L", "5", "6", "C", "8", "J", "L", "Q", "k", "q", "N", "p", "p", "1", "W", "8", "Z",
     "X", "j", "r", "K", "i", "L", "H", "U", "E", "B", "4", "L", "C", "G", "e", "X", "v", "b", "t", "V", "u", "R" >>

(***************************************************************************)
(* Inputs of the explored runs.                                            *)
(***************************************************************************)
Fill(b) == [i \in 1..SIG_LEN |-> b]

\* r = s = n - 1, the largest structurally valid components
ORDER_MINUS_1 == [i \in 1..32 |-> IF i = 32 THEN CURVE_ORDER[32] - 1 ELSE CURVE_ORDER[i]]

Datas ==
  {Fill(b) : b \in 0..MaxFill}
    \cup {ORDER_MINUS_1 \o ORDER_MINUS_1, CURVE_ORDER \o ORDER_MINUS_1, Fill(255)}

ValidSigs ==
  {Signature(id, d) : id \in 0..3, d \in {x \in Datas : RecoverableFromCompactOk(x)}}

\* values of byte 0: raw ids, the gap below the offset, legacy bytes, above
ByteZeroVals == {0, 3, 4, 27, 30, 31, 32, 33, 34, 35, 255}

\* 0-based positions of the tampered byte, among the 65 checksummed bytes
TamperIdx == {0, 1, 64}

U32Bytes(u) == << u.lo % 256, u.lo \div 256, u.hi % 256, u.hi \div 256 >>

\* a text whose payload is b0, data and a checksum; the checksum is the right
\* one iff good; extra bytes are appended (extra > 0) or cut off (extra < 0)
CraftedText(b0, data, good, extra) ==
  LET sum == U32Bytes(ExpectedChecksum(<<b0>> \o data))
      tail == IF good THEN sum ELSE <<(sum[1] + 1) % 256>> \o SubSeq(sum, 2, 4)
      full == <<b0>> \o data \o tail
      p == IF extra >= 0 THEN full \o [i \in 1..extra |-> 0]
           ELSE SubSeq(full, 1, Len(full) + extra)
  IN PREFIX \o encode_slice(p)

NoArg == [kind |-> "none", val |-> <<>>, from |-> "none"]

StrArg(s, from) == [kind |-> "str", val |-> s, from |-> from]

BytesArg(b, from) == [kind |-> "bytes", val |-> b, from |-> from]

TextInputs ==
  {StrArg(CraftedText(b0, d, good, extra), "input") :
      b0 \in ByteZeroVals, d \in Datas, good \in BOOLEAN, extra \in (-MaxExtra)..MaxExtra}
  \cup
  {StrArg(s, "input") : s \in
      { NO_PREFIX_STR,
        << >>,
        SubSeq(PREFIX, 1, 6),
        PREFIX,
        PREFIX \o << "1" >>,
        PREFIX \o << "0", "O", "I", "l" >>,
        PREFIX \o NO_PREFIX_STR,
        << "P", "U", "B", "_", "K", "1", "_", "0" >>,
        << "s", "i", "g", "_", "k", "1", "_" >> \o
           SubSeq(CraftedText(31, Fill(1), TRUE, 0), 8, Len(CraftedText(31, Fill(1), TRUE, 0))),
        << "S", "I", "G", "_", "R", "1", "_" >> \o
           SubSeq(CraftedText(31, Fill(1), TRUE, 0), 8, Len(CraftedText(31, Fill(1), TRUE, 0))) }}

BytesInputs == {BytesArg(<<b0>> \o d, "input") : b0 \in ByteZeroVals, d \in Datas}

NoRet == [op |-> "none", val |-> <<>>]

(***************************************************************************)
(* The caller.                                                             *)
(*   sig  the Signature it holds (NoSig: none)                             *)
(*   arg  the argument it passes to from_str or from_compact; arg.from     *)
(*        tells where it comes from: "input" (given from outside), "fmt"   *)
(*        and "serialize_compact" (the output for sig), "tampered" (the    *)
(*        output of fmt for sig with one byte changed), "parsed" and       *)
(*        "unpacked" (sig is the value decoded from it)                    *)
(*   ret  the value the last call returned                                 *)
(* ret.op = "from_str" or "from_compact" implies that ret.val is the       *)
(* result for the current arg, ret.op = "fmt" or "serialize_compact" that  *)
(* it is the output for the current sig: every change of arg or sig        *)
(* clears ret.                                                             *)
(***************************************************************************)
VARIABLES sig, arg, ret

vars == << sig, arg, ret >>

Init == sig = NoSig /\ arg = NoArg /\ ret = NoRet

\* impl From<RecoverableSignature> for Signature
From(recv_sig) ==
  /\ sig' = recv_sig
  /\ arg' = NoArg
  /\ ret' = NoRet

\* a string or a byte array arrives from outside, while the caller holds
\* nothing
Input(a) ==
  /\ sig = NoSig
  /\ arg = NoArg
  /\ sig' = NoSig
  /\ arg' = a
  /\ ret' = NoRet

\* the caller formats the Signature it holds, unless it is busy with an
\* argument that is not the source of that Signature
Fmt ==
  /\ sig # NoSig
  /\ arg.from \in {"none", "parsed", "unpacked"}
  /\ ret' = [op |-> "fmt", val |-> fmt(sig)]
  /\ UNCHANGED << sig, arg >>

SerializeCompact ==
  /\ sig # NoSig
  /\ arg.from \in {"none", "parsed", "unpacked"}
  /\ ret' = [op |-> "serialize_compact", val |-> serialize_compact(sig)]
  /\ UNCHANGED << sig, arg >>

\* the output of fmt or serialize_compact becomes the next argument
Feed ==
  /\ ret.op \in {"fmt", "serialize_compact"}
  /\ arg' = IF ret.op = "fmt" THEN StrArg(ret.val, "fmt")
            ELSE BytesArg(ret.val, "serialize_compact")
  /\ ret' = NoRet
  /\ UNCHANGED sig

\* the text of payload p with byte i (0-based) changed to v
TamperedText(p, i, v) == PREFIX \o encode_slice([p EXCEPT ![i + 1] = v])

TamperPayload(p) ==
  \E i \in TamperIdx, v \in ByteZeroVals :
    /\ i < COMPACT_LEN
    /\ i + 1 <= Len(p)
    /\ p[i + 1] # v
    /\ arg' = StrArg(TamperedText(p, i, v), "tampered")

\* one of the 65 checksummed bytes of a formatted signature that from_str
\* has accepted is changed to another value
Tamper ==
  /\ arg.from = "fmt"
  /\ ret.op = "from_str"
  /\ ret.val.tag = "Ok"
  /\ TamperPayload(base58_from(SubSeq(arg.val, PREFIX_LEN + 1, Len(arg.val))).bytes)
  /\ ret' = NoRet
  /\ UNCHANGED sig

FromStr ==
  /\ arg.kind = "str"
  /\ \E overflow_checks \in BOOLEAN :
        ret' = [op |-> "from_str", val |-> from_str(arg.val, overflow_checks)]
  /\ UNCHANGED << sig, arg >>

FromCompact ==
  /\ arg.kind = "bytes"
  /\ ret' = [op |-> "from_compact", val |-> from_compact(arg.val)]
  /\ UNCHANGED << sig, arg >>

\* the caller keeps the Signature a decoder returned
Take ==
  /\ ret.op \in {"from_str", "from_compact"}
  /\ ret.val.tag = "Ok"
  /\ sig' = ret.val.sig
  /\ arg' = [arg EXCEPT !.from = IF ret.op = "from_str" THEN "parsed" ELSE "unpacked"]
  /\ ret' = NoRet

Next ==
  \/ \E recv_sig \in ValidSigs : From(recv_sig)
  \/ \E a \in TextInputs \cup BytesInputs : Input(a)
  \/ Fmt
  \/ SerializeCompact
  \/ Feed
  \/ Tamper
  \/ FromStr
  \/ FromCompact
  \/ Take

Spec == Init /\ [][Next]_vars

TypeOK ==
  /\ sig = NoSig \/ (sig.recid \in 0..3 /\ Len(sig.data) = SIG_LEN)
  /\ arg.kind \in {"none", "str", "bytes"}
  /\ arg.kind = "bytes" => Len(arg.val) = COMPACT_LEN
  /\ ret.op \in {"none", "fmt", "serialize_compact", "from_str", "from_compact"}

(***************************************************************************)
(* Properties.  The tests on the argument are written out here and do not  *)
(* use the definitions of the codec.                                       *)
(***************************************************************************)
HasSigPrefix(s) ==
  Len(s) >= 7 /\ SubSeq(s, 1, 7) = << "S", "I", "G", "_", "K", "1", "_" >>

\* what follows the first seven characters, base58-decoded
PayloadOf(s) == base58_from(SubSeq(s, 8, Len(s)))

\* the first four digest bytes of the 65 bytes followed by "K1"
ChecksumBytes(bytes65) == SubSeq(ripemd160(bytes65 \o << 75, 49 >>), 1, 4)

\* a decoded payload of 69 bytes: byte 0, a structurally valid signature and
\* the checksum of these 65 bytes
WellFormedPayload(d) ==
  /\ d.ok
  /\ Len(d.bytes) = 69
  /\ SubSeq(d.bytes, 66, 69) = ChecksumBytes(SubSeq(d.bytes, 1, 65))
  /\ RecoverableFromCompactOk(SubSeq(d.bytes, 2, 65))

\* C1: Round-trip.  When the text that fmt produced for a valid Signature
\* (any of the four recovery ids) is parsed, from_str returns Ok with that
\* same Signature: the same recovery id and the same 64 compact bytes.
C1_RoundTrip ==
  (arg.from = "fmt" /\ ret.op = "from_str") => ret.val = Ok(sig)

C1_Witness ==
  /\ arg.from = "fmt"
  /\ ret.op = "from_str"
  /\ ret.val.tag = "Ok"
  /\ ret.val.sig.recid = 3
  /\ ret.val.sig.data = ORDER_MINUS_1 \o ORDER_MINUS_1

\* C2: Legacy-byte mapping.  When the 65 bytes that serialize_compact
\* produced for a valid Signature are unpacked, from_compact returns Ok with
\* the same recovery id and the same 64 compact bytes.
C2_LegacyByteMapping ==
  (arg.from = "serialize_compact" /\ ret.op = "from_compact") => ret.val = Ok(sig)

C2_Witness ==
  /\ arg.from = "serialize_compact"
  /\ ret.op = "from_compact"
  /\ ret.val.tag = "Ok"
  /\ ret.val.sig.recid = 3
  /\ arg.val[1] = 34

\* C3 as stated: a string that does not start with SIG_K1_ is refused with
\* an error kind of its own, InvalidPrefix.
C3_Original ==
  (arg.kind = "str" /\ ~HasSigPrefix(arg.val) /\ ret.op = "from_str")
    => (ret.val.tag = "Err" /\ ret.val.err = "InvalidPrefix")

\* C3 as amended: a string that does not start with SIG_K1_ is refused with
\* the error InvalidSignature of secp256k1, whatever follows: neither the
\* base58 alphabet nor the decoded length nor the checksum plays a part.
C3_PrefixRejection ==
  (arg.kind = "str" /\ ~HasSigPrefix(arg.val) /\ ret.op = "from_str")
    => ret.val = Err("InvalidSignature")

C3_Witness ==
  /\ arg.val = NO_PREFIX_STR
  /\ ret.op = "from_str"
  /\ ret.val = Err("InvalidSignature")

\* C4 as stated: a prefixed string whose remainder decodes to a number of
\* bytes other than 69 is refused with an error kind of its own,
\* InvalidLength.
C4_OriginalHolds(d, r) ==
  (d.ok /\ Len(d.bytes) # 69) => (r.tag = "Err" /\ r.err = "InvalidLength")

\* C4 as stated, on the argument and the result of from_str.
C4_Original ==
  (arg.kind = "str" /\ HasSigPrefix(arg.val) /\ ret.op = "from_str")
    => C4_OriginalHolds(PayloadOf(arg.val), ret.val)

\* C4 as amended: a prefixed string whose remainder decodes to a number of
\* bytes other than 69 is refused with the error InvalidSignature of
\* secp256k1, the error of the prefix test.
C4_Holds(d, r) ==
  (d.ok /\ Len(d.bytes) # 69) => r = Err("InvalidSignature")

\* C4 (amended): a prefixed string whose remainder decodes to a number of
\* bytes other than 69 makes from_str return the error InvalidSignature.
C4_LengthRejection ==
  (arg.kind = "str" /\ HasSigPrefix(arg.val) /\ ret.op = "from_str")
    => C4_Holds(PayloadOf(arg.val), ret.val)

C4_WitnessAt(d, r) ==
  d.ok /\ Len(d.bytes) = 70 /\ r = Err("InvalidSignature")

C4_Witness ==
  /\ arg.kind = "str"
  /\ HasSigPrefix(arg.val)
  /\ ret.op = "from_str"
  /\ C4_WitnessAt(PayloadOf(arg.val), ret.val)

\* C5: Checksum sensitivity.  When one of the 65 checksummed bytes of a text
\* that from_str accepted is changed to another value (byte 0 included) and
\* the checksum of the changed bytes is not the one in the text, from_str
\* returns BadChecksum with expected # actual, never another error, never Ok.
C5_Holds(d, r) ==
  (d.ok /\ Len(d.bytes) = 69
     /\ ChecksumBytes(SubSeq(d.bytes, 1, 65)) # SubSeq(d.bytes, 66, 69))
    => (r.tag = "Err" /\ r.err = "BadChecksum" /\ r.expected # r.actual)

\* C5: after one of the 65 checksummed bytes of an accepted text is changed,
\* from_str returns BadChecksum with expected # actual.
C5_ChecksumSensitivity ==
  (arg.from = "tampered" /\ ret.op = "from_str")
    => C5_Holds(PayloadOf(arg.val), ret.val)

\* C6: from_compact threshold.  Of a 65-byte input, byte 0 in 0..3 is the
\* recovery id itself and byte 0 in 31..34 is the recovery id plus 31; every
\* other byte 0 (4..30, 35..255) is refused with InvalidRecoveryId and no
\* accepted byte 0 is; when from_compact returns Ok, the Signature has that
\* id and bytes 1..65 as its compact bytes.
C6_FromCompactThreshold ==
  (arg.kind = "bytes" /\ ret.op = "from_compact")
    => /\ ret.val = Err("InvalidRecoveryId") <=> arg.val[1] \notin {0, 1, 2, 3, 31, 32, 33, 34}
       /\ ret.val.tag \in {"Ok", "Err"}
       /\ ret.val.tag = "Ok" =>
            /\ ret.val.sig.recid = IF arg.val[1] <= 3 THEN arg.val[1] ELSE arg.val[1] - 31
            /\ ret.val.sig.data = SubSeq(arg.val, 2, 65)

C6_Witness ==
  /\ arg.kind = "bytes"
  /\ arg.from = "input"
  /\ ret.op = "from_compact"
  /\ arg.val[1] = 31
  /\ ret.val.tag = "Ok"
  /\ ret.val.sig.recid = 0

\* C7: Text layout.  The text fmt produces is SIG_K1_ followed by the base58
\* encoding of 69 bytes: the 65 bytes of serialize_compact (byte 0 the
\* recovery id plus 31, then the 64 compact bytes) and the first 4 bytes of
\* the digest of these 65 bytes followed by "K1", which read as a u32 are the
\* checksum from_str computes for them.
C7_Layout(text, packed, s) ==
  /\ packed = << s.recid + 31 >> \o s.data
  /\ Len(packed \o ChecksumBytes(packed)) = 69
  /\ text = << "S", "I", "G", "_", "K", "1", "_" >>
              \o encode_slice(packed \o ChecksumBytes(packed))
  /\ read_u32(ChecksumBytes(packed)) = ExpectedChecksum(packed)

\* C7: the text fmt returns has the layout above for the Signature held.
C7_TextLayout ==
  ret.op = "fmt" => C7_Layout(ret.val, serialize_compact(sig), sig)

C7_Witness ==
  /\ ret.op = "fmt"
  /\ arg.from = "none"
  /\ sig.recid = 2
  /\ HasSigPrefix(ret.val)

\* C8 as stated: on a prefixed string whose payload is well formed, from_str
\* returns Ok exactly when from_compact does on the first 65 bytes, and then
\* the same Signature.
C8_OriginalHolds(d, r) ==
  WellFormedPayload(d) =>
    /\ r.tag = "Ok" <=> from_compact(SubSeq(d.bytes, 1, 65)).tag = "Ok"
    /\ r.tag = "Ok" => r = from_compact(SubSeq(d.bytes, 1, 65))

\* C8 as stated, on the argument and the result of from_str.
C8_Original ==
  (arg.kind = "str" /\ HasSigPrefix(arg.val) /\ ret.op = "from_str")
    => C8_OriginalHolds(PayloadOf(arg.val), ret.val)

\* C8 as amended: on a prefixed string whose payload is well formed, from_str
\* returns Ok exactly when byte 0 is in 31..34, and then the Signature that
\* from_compact returns for the first 65 bytes: recovery id byte 0 - 31 and
\* compact bytes 1..65.  Byte 0 in 0..3, which from_compact accepts as a raw
\* id, is not accepted.
C8_Holds(d, r) ==
  WellFormedPayload(d) =>
    /\ r.tag = "Ok" <=> d.bytes[1] \in 31..34
    /\ r.tag = "Ok" =>
         /\ r = from_compact(SubSeq(d.bytes, 1, 65))
         /\ r.sig = [recid |-> d.bytes[1] - 31, data |-> SubSeq(d.bytes, 2, 65)]

\* C8 (amended): on a well-formed payload from_str returns Ok exactly when
\* byte 0 is in 31..34, and then what from_compact returns.
C8_ParseAcceptance ==
  (arg.kind = "str" /\ HasSigPrefix(arg.val) /\ ret.op = "from_str")
    => C8_Holds(PayloadOf(arg.val), ret.val)

C8_WitnessAt(d, r) ==
  WellFormedPayload(d) /\ d.bytes[1] = 32 /\ r.tag = "Ok" /\ r.sig.recid = 1

C8_Witness ==
  /\ arg.from = "input"
  /\ arg.kind = "str"
  /\ HasSigPrefix(arg.val)
  /\ ret.op = "from_str"
  /\ C8_WitnessAt(PayloadOf(arg.val), ret.val)

\* C9: from_str is total-or-erroring.  Whatever the string, it returns a
\* Signature or an error and does not abort; the u8 subtraction
\* s_hex[0] - 4 - 27 does not go below 0 on any 69-byte payload.
C9_TotalOrErroring ==
  ret.op = "from_str" => ret.val.tag \in {"Ok", "Err"}

\* C10: Canonical text form.  When from_str accepts a string and the
\* Signature it returns is formatted, fmt gives back that string; the
\* accepted payload has 69 bytes and byte 0 in 31..34.
C10_PayloadShape(d) ==
  d.ok /\ Len(d.bytes) = 69 /\ d.bytes[1] \in 31..34

\* C10: fmt of the Signature that from_str returned for a string is that
\* string, and the payload of an accepted string has the canonical shape.
C10_CanonicalText ==
  /\ (arg.from = "parsed" /\ ret.op = "fmt") => ret.val = arg.val
  /\ arg.from = "parsed" => C10_PayloadShape(PayloadOf(arg.val))

C10_Witness ==
  /\ arg.from = "parsed"
  /\ ret.op = "fmt"
  /\ ret.val = arg.val
  /\ sig.recid = 1

====
